---------------------------- MODULE Spec2Model ----------------------------
(***************************************************************************)
(* Model of the two image utilities of taptaptrack:                        *)
(*                                                                         *)
(*   src/utils/fix_white_space.py   remove_white_space (the trimmer)       *)
(*   src/media/create_app_icon.py   convert_blue_to_white and              *)
(*                                  convert_to_white_preserve_shape        *)
(*                                                                         *)
(* An image is a sequence of rows (top row first), a row a sequence of     *)
(* pixels, a pixel a tuple of channels in 0..255 (<<r,g,b>> for the        *)
(* trimmer, which works in mode RGB, <<r,g,b,a>> for the recolorizer,      *)
(* which works in mode RGBA).  Python row index y is row y+1 here.         *)
(*                                                                         *)
(* Python's float arithmetic is modelled by exact integer comparisons:     *)
(*   s/(3n) > 240  as  s > 720n,   c/n > 0.8  as  5c > 4n,                 *)
(*   int(x/3) for x >= 0  as  x \div 3.                                    *)
(***************************************************************************)
EXTENDS Integers, Sequences, FiniteSets

VARIABLES
    file,            \* trimmer: the image stored at image_path
    img,             \* trimmer: the local img (<<>> before Image.open)
    tw, th,          \* trimmer: target_width, target_height
    pc,              \* trimmer: position in remove_white_space
    content_bottom,  \* trimmer: the local content_bottom (0 models None)
    result,          \* trimmer: the value returned ("pending" while running)
    resized,         \* trimmer: this invocation printed "Resized to ..."
    run,             \* trimmer: number of the current invocation on the file
    logo,            \* recolorizer: the RGBA image being converted
    before,          \* recolorizer: the image the last conversion read
    applied          \* recolorizer: the conversions applied so far, in order

vars == <<file, img, tw, th, pc, content_bottom, result, resized, run,
          logo, before, applied>>

trimVars == <<file, img, tw, th, pc, content_bottom, result, resized, run>>
logoVars == <<logo, before, applied>>

-----------------------------------------------------------------------------
(* Program constants of fix_white_space.py *)

ScanRows == 100
SampleRows == 20
MinBgPixels == 50
LowSum == 50
HighSum == 600
AvgLimit == 240
WhiteLevel == 250
DefaultHeight == 2688

(* Bounds of the model *)

MaxRuns == 2
MaxExtra == 2

-----------------------------------------------------------------------------
(* Images *)

Height(im) == Len(im)
Width(im) == IF Len(im) = 0 THEN 0 ELSE Len(im[1])

Max(a, b) == IF a > b THEN a ELSE b
Min(a, b) == IF a < b THEN a ELSE b

RECURSIVE SumTo(_, _)
\* sum(f[1..n])
SumTo(f, n) == IF n = 0 THEN 0 ELSE f[n] + SumTo(f, n - 1)

\* sum(p[c] for p in pixels)
ChannelSum(pixels, c) == SumTo([i \in 1..Len(pixels) |-> pixels[i][c]], Len(pixels))

\* sum(sum(p) for p in pixels)
PixelSum(pixels) == ChannelSum(pixels, 1) + ChannelSum(pixels, 2) + ChannelSum(pixels, 3)

\* p[0] > 250 and p[1] > 250 and p[2] > 250
IsWhitePixel(p) == p[1] > WhiteLevel /\ p[2] > WhiteLevel /\ p[3] > WhiteLevel

\* sum(1 for p in pixels if p is white)
WhiteCount(pixels) == Cardinality({i \in 1..Len(pixels) : IsWhitePixel(pixels[i])})


-----------------------------------------------------------------------------
(* remove_white_space, phase 2: boundary detection *)

\* variant: the brightness test of the bottom row written with >=
BottomIsWhiteAtLeast(pixels) ==
    \/ PixelSum(pixels) >= AvgLimit * (Len(pixels) * 3)
    \/ 5 * WhiteCount(pixels) > 4 * Len(pixels)

\* bottom_avg > 240 or bottom_white_ratio > 0.8, on the row's pixels
BottomIsWhite(pixels) ==
    \/ PixelSum(pixels) > AvgLimit * (Len(pixels) * 3)
    \/ 5 * WhiteCount(pixels) > 4 * Len(pixels)

\* avg_brightness < 240 and white_ratio < 0.8, on the row's pixels
RowIsContent(pixels) ==
    /\ PixelSum(pixels) < AvgLimit * (Len(pixels) * 3)
    /\ 5 * WhiteCount(pixels) < 4 * Len(pixels)

\* variant: the scan stops one row earlier
ScanStopOneEarlier(height) == Max(0, height - ScanRows + 1)

\* the (exclusive) stop of range(height - 1, max(0, height - 100), -1)
ScanStop(height) == Max(0, height - ScanRows)

RECURSIVE ScanUp(_, _, _)
\* the for loop over y = from, from - 1, ..., stop + 1: y + 1 at the first
\* content row, and 0 (None) when the loop ends without a break
ScanUp(im, y, stop) ==
    IF y <= stop THEN 0
    ELSE IF RowIsContent(im[y + 1]) THEN y + 1
    ELSE ScanUp(im, y - 1, stop)

\* the value of content_bottom when phase 2 ends
FindContentBottom(im) ==
    IF BottomIsWhite(im[Height(im)])
    THEN ScanUp(im, Height(im) - 1, ScanStop(Height(im)))
    ELSE 0

-----------------------------------------------------------------------------
(* remove_white_space, phase 3: fill estimation and write-back *)

RECURSIVE Flatten(_, _, _)
\* list(img.crop((0, from, width, to)).getdata()): the pixels of rows
\* from..to-1 (Python indices), row by row
Flatten(im, from, to) ==
    IF from >= to THEN <<>> ELSE Flatten(im, from, to - 1) \o im[to]

\* [p for p in pixels if 50 < sum(p) < 600]
BgFilter(pixels) ==
    SelectSeq(pixels, LAMBDA p : LowSum < p[1] + p[2] + p[3]
                                   /\ p[1] + p[2] + p[3] < HighSum)

RECURSIVE Insert(_, _)
Insert(s, v) ==
    IF s = <<>> THEN <<v>>
    ELSE IF v >= s[Len(s)] THEN Append(s, v)
    ELSE Append(Insert(SubSeq(s, 1, Len(s) - 1), v), s[Len(s)])

RECURSIVE Sorted(_)
\* sorted(values)
Sorted(values) ==
    IF values = <<>> THEN <<>>
    ELSE Insert(Sorted(SubSeq(values, 1, Len(values) - 1)), values[Len(values)])

\* sorted([p[c] for p in pixels])[len(pixels) // 2]
ChannelMedian(pixels, c) ==
    Sorted([i \in 1..Len(pixels) |-> pixels[i][c]])[(Len(pixels) \div 2) + 1]

MedianColor(pixels) ==
    <<ChannelMedian(pixels, 1), ChannelMedian(pixels, 2), ChannelMedian(pixels, 3)>>

\* sample_start = max(0, content_bottom - 20) and the sample's pixels
SamplePixels(im, cb) == Flatten(im, Max(0, cb - SampleRows), cb)

\* variant: the filtered median is used from 50 surviving pixels on
BgColorAtLeast(im, cb) ==
    LET sample == SamplePixels(im, cb)
        bg == BgFilter(sample)
    IN  IF Len(bg) >= MinBgPixels THEN MedianColor(bg) ELSE MedianColor(sample)

\* bg_color
BgColor(im, cb) ==
    LET sample == SamplePixels(im, cb)
        bg == BgFilter(sample)
    IN  IF Len(bg) > MinBgPixels THEN MedianColor(bg) ELSE MedianColor(sample)

\* variant: the fill is pasted one row too high, over the last content row
ExtendedOverLastRow(im, cb, w, h) ==
    LET bg == BgColor(im, cb)
    IN  [i \in 1..h |-> IF i < cb THEN im[i] ELSE [x \in 1..w |-> bg]]

\* new_img: the content rows of im, then target_height - content_bottom
\* rows of target_width pixels of bg_color
Extended(im, cb, w, h) ==
    LET bg == BgColor(im, cb)
    IN  [i \in 1..h |-> IF i <= cb THEN im[i] ELSE [x \in 1..w |-> bg]]

-----------------------------------------------------------------------------
(* The input images of the trimmer *)

White == <<255, 255, 255>>
NearWhite == <<251, 251, 251>>
Pale == <<250, 250, 250>>
Grey241 == <<241, 240, 240>>
Grey240 == <<240, 240, 240>>
Grey239 == <<239, 240, 240>>
Light600 == <<200, 200, 200>>
Light599 == <<199, 200, 200>>
Mid == <<100, 120, 200>>
Dark51 == <<11, 20, 20>>
Dark50 == <<10, 20, 20>>
Black == <<0, 0, 0>>
Yellow == <<255, 255, 0>>
Magenta == <<255, 0, 255>>
Cyan == <<0, 255, 255>>

\* a row of w pixels of colour c
Uniform(w, c) == [x \in 1..w |-> c]

\* a row of w pixels: k of colour c, then w - k of colour d
Mixed(w, k, c, d) == [x \in 1..w |-> IF x <= k THEN c ELSE d]

\* a row cycling through yellow, magenta and cyan
Striped(w) == [x \in 1..w |-> IF x % 3 = 1 THEN Yellow
                               ELSE IF x % 3 = 2 THEN Magenta ELSE Cyan]

\* an image of h rows: the lowest g are bot, the a above them are mid, the
\* rest are top
Bands(h, top, a, mid, g, bot) ==
    [i \in 1..h |-> IF i > h - g THEN bot ELSE IF i > h - g - a THEN mid ELSE top]

Widths == {1, 3, 5}
Heights == {2, 30, ScanRows - 1, ScanRows, ScanRows + MaxExtra}
Targets == Widths \X Heights

\* heights of the white band at the bottom
Gaps(h) == {0, 1, 2, ScanRows - 2, ScanRows - 1, ScanRows, h - 1, h} \cap 0..h

\* content with white space of every gap below it
GapImages(w, h) ==
    { Bands(h, Uniform(w, c), 0, Uniform(w, c), g, Uniform(w, bot)) :
        c \in {Mid, Light600, Grey240}, g \in Gaps(h), bot \in {White, NearWhite} }

\* rows at and around the thresholds of the two row tests
EdgeRows(w) ==
    { Uniform(w, c) : c \in {Pale, Grey241, Grey240, Grey239, Black} }
    \cup { Mixed(w, k, White, Black) : k \in 0..w }
    \cup { Mixed(w, k, NearWhite, Pale) : k \in 0..w }

\* one row of EdgeRows between the content and the white space, or at the
\* bottom of the image
EdgeImages(w, h) ==
    { Bands(h, Uniform(w, top), Min(1, h - g), e, g, Uniform(w, White)) :
        top \in {Mid, White}, e \in EdgeRows(w), g \in {0, 1, 3} \cap 0..h }

\* two bands of content inside the 20 sampled rows, white space below
SampleImages(w, h) ==
    { Bands(h, t, a, Uniform(w, c), g, Uniform(w, White)) :
        t \in {Uniform(w, Mid), Uniform(w, Light599), Uniform(w, Dark51), Striped(w)},
        a \in {1, SampleRows \div 2 - 1, SampleRows \div 2, SampleRows \div 2 + 1,
               SampleRows - 1} \cap 1..(h - 5),
        c \in {Light600, Dark50, Black},
        g \in {1, 5} }

\* the images of w by h pixels the model draws from
ImagesOfSize(w, h) == GapImages(w, h) \cup EdgeImages(w, h) \cup SampleImages(w, h)

\* images of other sizes than the target
OtherSizes(w, h) ==
    { im \in { Bands(hh, Uniform(ww, Mid), 0, Uniform(ww, Mid), 1, Uniform(ww, c)) :
                 ww \in {w, w + 1}, hh \in {1, h, h + 1}, c \in {White, Mid} } :
        Width(im) # w \/ Height(im) # h }

-----------------------------------------------------------------------------
(* remove_white_space as a sequential process over the stored file *)

NoLogo == <<>>

\* construction: the file exists, target sizes are given, nothing has run
TrimStart(im, w, h) ==
    /\ file = im
    /\ tw = w
    /\ th = h
    /\ img = <<>>
    /\ pc = "normalize"
    /\ content_bottom = 0
    /\ result = "pending"
    /\ resized = FALSE
    /\ run = 1
    /\ logo = NoLogo
    /\ before = NoLogo
    /\ applied = <<>>

Init ==
    \E t \in Targets :
        \E im \in ImagesOfSize(t[1], t[2]) \cup OtherSizes(t[1], t[2]) :
            TrimStart(im, t[1], t[2])

\* variant: the result of img.resize is dropped and img saved as it was
ResizeNotAssigned(im, w, h) == {im}

\* img.resize((target_width, target_height), LANCZOS): an image of the target
\* size.  The resampled pixel values are not computed: any image of the
\* target size the model draws from may result.
Resized(im, w, h) == ImagesOfSize(w, h)

\* phase 1 when the sizes differ: resize, save, reload
NormalizeResize ==
    /\ pc = "normalize"
    /\ Width(file) # tw \/ Height(file) # th
    /\ \E r \in Resized(file, tw, th) :
          /\ file' = r
          /\ img' = r
    /\ resized' = TRUE
    /\ pc' = "detect"
    /\ UNCHANGED <<tw, th, content_bottom, result, run, logoVars>>

\* phase 1 when the image already has the target size: nothing is saved
NormalizeKeep ==
    /\ pc = "normalize"
    /\ Width(file) = tw /\ Height(file) = th
    /\ img' = file
    /\ pc' = "detect"
    /\ UNCHANGED <<file, tw, th, content_bottom, result, resized, run, logoVars>>

\* phase 2: the bottom-row test and the upward scan
Detect ==
    /\ pc = "detect"
    /\ content_bottom' = FindContentBottom(img)
    /\ pc' = "extend"
    /\ UNCHANGED <<file, img, tw, th, result, resized, run, logoVars>>

\* phase 3 when a boundary was found above the target height: fill and save
Extend ==
    /\ pc = "extend"
    /\ content_bottom # 0 /\ content_bottom < th
    /\ file' = Extended(img, content_bottom, tw, th)
    /\ result' = "True"
    /\ pc' = "done"
    /\ UNCHANGED <<img, tw, th, content_bottom, resized, run, logoVars>>

\* phase 3 otherwise: return False
NoChange ==
    /\ pc = "extend"
    /\ ~(content_bottom # 0 /\ content_bottom < th)
    /\ result' = "False"
    /\ pc' = "done"
    /\ UNCHANGED <<file, img, tw, th, content_bottom, resized, run, logoVars>>

\* the script is run again on the file it left, with the same target size
Rerun ==
    /\ pc = "done"
    /\ run < MaxRuns
    /\ run' = run + 1
    /\ img' = <<>>
    /\ content_bottom' = 0
    /\ result' = "pending"
    /\ resized' = FALSE
    /\ pc' = "normalize"
    /\ UNCHANGED <<file, tw, th, logoVars>>

Next ==
    \/ NormalizeResize
    \/ NormalizeKeep
    \/ Detect
    \/ Extend
    \/ NoChange
    \/ Rerun

Spec == Init /\ [][Next]_vars

-----------------------------------------------------------------------------
(* The trimmer's contract, in the terms of its specification *)

\* a row is white when its mean brightness exceeds 240 or the fraction of its
\* pixels with all channels above 250 exceeds 0.8
RowWhite(row) ==
    LET n == Len(row)
        bright == SumTo([x \in 1..n |-> row[x][1] + row[x][2] + row[x][3]], n)
        whites == Cardinality({x \in 1..n : \A c \in 1..3 : row[x][c] > 250})
    IN  bright > 3 * 240 * n \/ 10 * whites > 8 * n

\* a row that is not white with room to spare: mean brightness below 240 and
\* white fraction below 0.8
RowClearlyContent(row) ==
    LET n == Len(row)
        bright == SumTo([x \in 1..n |-> row[x][1] + row[x][2] + row[x][3]], n)
        whites == Cardinality({x \in 1..n : \A c \in 1..3 : row[x][c] > 250})
    IN  bright < 3 * 240 * n /\ 10 * whites < 8 * n

\* the Python indices of the bottom-most 100 rows
Window100(im) == Max(0, Height(im) - 100)..(Height(im) - 1)

\* the Python indices of the rows the loop of phase 2 visits
Visited(im) == (Max(0, Height(im) - 100) + 1)..(Height(im) - 1)

SetMax(S) == CHOOSE m \in S : \A n \in S : n <= m

\* positions (row, column) of the up-to-20 rows above boundary cb
SamplePos(im, cb) == (Max(0, cb - 20) + 1..cb) \X (1..Width(im))

\* the sampled positions whose pixel passes the outlier filter
Survivors(im, cb) ==
    { q \in SamplePos(im, cb) :
        LET p == im[q[1]][q[2]]
        IN  50 < p[1] + p[2] + p[3] /\ p[1] + p[2] + p[3] < 600 }

\* v is the median (the upper one of an even count) of channel c over the
\* pixels at positions P of im
IsMedian(im, P, c, v) ==
    LET k == Cardinality(P) \div 2
    IN  /\ Cardinality({q \in P : im[q[1]][q[2]][c] < v}) <= k
        /\ Cardinality({q \in P : im[q[1]][q[2]][c] <= v}) > k

\* col is the per-channel median of the pixels at positions P of im
IsMedianColor(im, P, col) == \A c \in 1..3 : IsMedian(im, P, c, col[c])

\* rows from+1..h of im are all w pixels of colour col
SolidBelow(im, from, w, h, col) ==
    \A i \in (from + 1)..h : im[i] = [x \in 1..w |-> col]

\* an invocation has returned True: it filled and saved
Filled == pc = "done" /\ result = "True"

\* the colour of the bottom-right pixel of the stored file
FillColor == file[Height(file)][Width(file)]

-----------------------------------------------------------------------------
(* C2: when the bottom row is white, a boundary is detected if and only if   *)
(* one of the bottom-most 100 rows (indices height-1 down to height-100, or  *)
(* to 0) is non-white; when none is, nothing is written and False returned.  *)
(* Stated in the two halves that hold under either reading of "non-white":   *)
(* a clearly-content row in the window forces a detection, and a detection   *)
(* needs a non-white row in the window; for an input that needed no resize.  *)
C2_Window100Decides ==
    (pc \in {"extend", "done"} /\ ~resized /\ RowWhite(img[Height(img)])) =>
        /\ (\E y \in Window100(img) : RowClearlyContent(img[y + 1]))
              => content_bottom # 0
        /\ content_bottom # 0
              => \E y \in Window100(img) : ~RowWhite(img[y + 1])
        /\ (pc = "done" /\ \A y \in Window100(img) : RowWhite(img[y + 1]))
              => result = "False" /\ file = img

(* C3: during the upward scan the first row from the bottom that is not      *)
(* white (mean brightness <= 240 and white fraction <= 0.8) is the last      *)
(* content row, and the boundary is its index + 1.  Stated over the rows the *)
(* loop visits, for an input that needed no resize.                          *)
C3_FirstNonWhiteRowIsBoundary ==
    (pc \in {"extend", "done"} /\ ~resized /\ RowWhite(img[Height(img)])) =>
        LET nonWhite == {y \in Visited(img) : ~RowWhite(img[y + 1])}
        IN  nonWhite # {} => content_bottom = SetMax(nonWhite) + 1

(* C4 as claimed: the fill colour is the per-channel median of the pixels    *)
(* that pass the filter when at least 50 pass, and of the whole sample only  *)
(* when fewer than 50 pass (for an input that needed no resize).             *)
C4_FilteredMedianFrom50 ==
    (Filled /\ ~resized) =>
        LET all == SamplePos(img, content_bottom)
            kept == Survivors(img, content_bottom)
        IN  /\ SolidBelow(file, content_bottom, tw, th, FillColor)
            /\ IsMedianColor(img, IF Cardinality(kept) >= 50 THEN kept ELSE all,
                             FillColor)

(* C4 as amended: the sample is the up-to-20 rows above the boundary, a      *)
(* pixel passes the filter iff 50 < R+G+B < 600, and the fill colour is the  *)
(* per-channel median of the passing pixels when more than 50 pass, and of   *)
(* the whole sample when 50 or fewer pass.                                   *)
C4_FilteredMedianAbove50 ==
    Filled =>
        LET all == SamplePos(img, content_bottom)
            kept == Survivors(img, content_bottom)
        IN  /\ SolidBelow(file, content_bottom, tw, th, FillColor)
            /\ IsMedianColor(img, IF Cardinality(kept) > 50 THEN kept ELSE all,
                             FillColor)

\* a fill from a sample of which exactly 50 pixels pass the filter, where the
\* two medians differ
C4_Witness ==
    /\ Filled
    /\ ~resized
    /\ Cardinality(Survivors(img, content_bottom)) = 50
    /\ ~IsMedianColor(img, Survivors(img, content_bottom), FillColor)

(* C5: if the bottom row of the normalized image is not white, the           *)
(* invocation returns False and no step of it after phase 1 writes the       *)
(* file; and when the input already has the target size, no step writes it.  *)
C5_NoWriteWhenBottomNotWhite ==
    [][ /\ (pc \in {"detect", "extend"} /\ ~RowWhite(img[Height(img)]))
            => file' = file /\ (pc' = "done" => result' = "False")
        /\ (pc = "normalize" /\ Width(file) = tw /\ Height(file) = th
              /\ ~RowWhite(file[Height(file)]))
            => file' = file /\ ~resized'
      ]_vars

\* an invocation that did not resize has ended on an image whose bottom row
\* is not white
C5_Witness ==
    /\ pc = "done"
    /\ ~resized
    /\ ~RowWhite(img[Height(img)])
    /\ result = "False"
    /\ file = img

(* C6: after phase 1 the image worked on has exactly the target size, the    *)
(* resized image is in the file before boundary detection starts, and the    *)
(* file has the target size after every completed invocation.                *)
C6_TargetDimensions ==
    /\ pc \in {"detect", "extend", "done"} =>
          /\ Height(img) = th
          /\ \A i \in 1..Height(img) : Len(img[i]) = tw
          /\ Height(file) = th
          /\ \A i \in 1..Height(file) : Len(file[i]) = tw
    /\ pc = "detect" => file = img

\* an invocation that resized and then filled has completed
C6_Witness == Filled /\ resized

(* C10: a second invocation with the same target size leaves every pixel of  *)
(* the stored image as the first invocation left it.                         *)
C10_SecondRunKeepsFile == [][run >= 2 => file' = file]_vars

\* a second invocation that detected the boundary again and wrote the fill
\* again (the fill colour is white)
C10_Witness == run = 2 /\ Filled /\ RowWhite(file[Height(file)])

-----------------------------------------------------------------------------
(* create_app_icon.py: the two recolorizer policies *)

MaxPasses == 2
MaxLogoWidth == 2

\* variant: the boosted opacity is not capped at 255
BlueToWhiteOpacityUncapped(p) ==
    LET opacity == (765 - (p[1] + p[2] + p[3])) \div 3
    IN  (3 * opacity) \div 2

\* convert_blue_to_white, one pixel: brightness = (r + g + b) / 3
BlueToWhiteOpacity(p) ==
    LET opacity == (765 - (p[1] + p[2] + p[3])) \div 3   \* int(255 - brightness)
    IN  Min(255, (3 * opacity) \div 2)                   \* min(255, int(opacity * 1.5))

BlueToWhitePixel(p) ==
    IF p[1] + p[2] + p[3] > 3 * 240                      \* brightness > 240
    THEN <<255, 255, 255, 0>>
    ELSE <<255, 255, 255, BlueToWhiteOpacity(p)>>

\* variant: the opacity is rounded to the nearest integer
PreserveShapeOpacityRounded(p) ==
    Min(255, (4 * ((255 - p[1]) + (255 - p[2]) + (255 - p[3])) + 3) \div 6)

\* convert_to_white_preserve_shape, one pixel:
\* avg_diff = (255 - r + 255 - g + 255 - b) / 3; int(min(255, avg_diff * 2))
PreserveShapeOpacity(p) ==
    Min(255, (2 * ((255 - p[1]) + (255 - p[2]) + (255 - p[3]))) \div 3)

IsWhiteBg(p) == p[1] > 245 /\ p[2] > 245 /\ p[3] > 245

\* variant: background becomes transparent white, as in convert_blue_to_white
PreserveShapePixelWhiteBg(p) ==
    IF IsWhiteBg(p) THEN <<255, 255, 255, 0>>
    ELSE IF PreserveShapeOpacity(p) > 10
         THEN <<255, 255, 255, PreserveShapeOpacity(p)>>
         ELSE <<255, 255, 255, 0>>

PreserveShapePixel(p) ==
    IF IsWhiteBg(p) THEN <<0, 0, 0, 0>>
    ELSE IF PreserveShapeOpacity(p) > 10
         THEN <<255, 255, 255, PreserveShapeOpacity(p)>>
         ELSE <<0, 0, 0, 0>>

\* the loops over y and x of either function
ConvertedBlueToWhite(im) ==
    [y \in 1..Height(im) |-> [x \in 1..Width(im) |-> BlueToWhitePixel(im[y][x])]]

ConvertedPreserveShape(im) ==
    [y \in 1..Height(im) |-> [x \in 1..Width(im) |-> PreserveShapePixel(im[y][x])]]

\* channel values around the thresholds of the two policies
ChannelValues == {0, 128, 239, 240, 241, 245, 246, 255}

\* pixels of the images of more than one pixel
LogoPalette == { <<255, 255, 255, 255>>, <<250, 250, 250, 0>>,
                 <<255, 255, 245, 255>>, <<30, 60, 200, 255>> }

LogoInputs ==
    { <<<<p>>>> : p \in (0..255) \X ChannelValues \X ChannelValues \X {255} }
    \cup UNION { [1..h -> [1..w -> LogoPalette]] : w \in 1..MaxLogoWidth, h \in 1..2 }

InitLogo ==
    /\ logo \in LogoInputs
    /\ before = NoLogo
    /\ applied = <<>>
    /\ file = <<>>
    /\ img = <<>>
    /\ tw = 0
    /\ th = 0
    /\ pc = "idle"
    /\ content_bottom = 0
    /\ result = "pending"
    /\ resized = FALSE
    /\ run = 0

ConvertBlueToWhite ==
    /\ Len(applied) < MaxPasses
    /\ before' = logo
    /\ logo' = ConvertedBlueToWhite(logo)
    /\ applied' = Append(applied, "blue_to_white")
    /\ UNCHANGED trimVars

ConvertToWhitePreserveShape ==
    /\ Len(applied) < MaxPasses
    /\ before' = logo
    /\ logo' = ConvertedPreserveShape(logo)
    /\ applied' = Append(applied, "preserve_shape")
    /\ UNCHANGED trimVars

NextLogo == ConvertBlueToWhite \/ ConvertToWhitePreserveShape

SpecLogo == InitLogo /\ [][NextLogo]_vars

-----------------------------------------------------------------------------
(* The recolorizer's contract *)

\* the positions (row, column) of the image being converted
LogoPos == { q \in (1..Height(logo)) \X (1..Width(logo)) : TRUE }

\* the sum of the three channel deficits of a pixel
Deficit(p) == (255 - p[1]) + (255 - p[2]) + (255 - p[3])

\* not all three channels above 245
NotBackground(p) == ~(p[1] > 245 /\ p[2] > 245 /\ p[3] > 245)

\* round(2 * Deficit / 3): the fraction of 2d/3 is never one half
RoundedOpacity(p) == Min(255, (4 * Deficit(p) + 3) \div 6)

\* o = min(255, floor(2 * Deficit / 3))
IsFlooredOpacity(p, o) ==
    \/ o = 255 /\ 2 * Deficit(p) >= 3 * 255
    \/ o < 255 /\ 3 * o <= 2 * Deficit(p) /\ 2 * Deficit(p) < 3 * (o + 1)

LastApplied == applied[Len(applied)]

Transparent(q) == q[4] = 0
WhiteWithAlpha(q) == q[1] = 255 /\ q[2] = 255 /\ q[3] = 255 /\ q[4] \in 1..255
OpaqueWhite(q) == q = <<255, 255, 255, 255>>

(* C7 as claimed: under the non-white-detection policy a pixel that is not   *)
(* background gets opacity min(255, round(2 * average channel deficit)); it  *)
(* becomes white with that alpha when the opacity is > 10 and transparent    *)
(* when it is <= 10.                                                         *)
C7_RoundedOpacity ==
    (applied = <<"preserve_shape">>) =>
        \A q \in LogoPos :
            LET p == before[q[1]][q[2]]
                o == RoundedOpacity(p)
            IN  NotBackground(p) =>
                    logo[q[1]][q[2]] = IF o > 10 THEN <<255, 255, 255, o>>
                                       ELSE <<0, 0, 0, 0>>

(* C7 as amended: the opacity is min(255, floor(2 * average channel          *)
(* deficit)), the fraction dropped; the pixel becomes white with that alpha  *)
(* when the opacity is > 10 and transparent when it is <= 10.                *)
C7_FlooredOpacity ==
    (applied = <<"preserve_shape">>) =>
        \A q \in LogoPos :
            LET p == before[q[1]][q[2]]
                out == logo[q[1]][q[2]]
            IN  NotBackground(p) =>
                    \/ WhiteWithAlpha(out) /\ out[4] > 10 /\ IsFlooredOpacity(p, out[4])
                    \/ out = <<0, 0, 0, 0>>
                         /\ \E o \in 0..10 : IsFlooredOpacity(p, o)

\* a foreground pixel whose opacity rounds up to 11 or more was converted
C7_Witness ==
    /\ applied = <<"preserve_shape">>
    /\ \E q \in LogoPos :
          /\ NotBackground(before[q[1]][q[2]])
          /\ Deficit(before[q[1]][q[2]]) % 3 = 1
          /\ RoundedOpacity(before[q[1]][q[2]]) > 10

(* C8 as claimed: re-applying a policy to its own output yields an image     *)
(* that is uniformly all-transparent or uniformly all-opaque-white.          *)
C8_ReapplyUniform ==
    (applied = <<"blue_to_white", "blue_to_white">>
       \/ applied = <<"preserve_shape", "preserve_shape">>) =>
        \/ \A q \in LogoPos : Transparent(logo[q[1]][q[2]])
        \/ \A q \in LogoPos : OpaqueWhite(logo[q[1]][q[2]])

(* C8 as amended: re-applying convert_blue_to_white to its own output yields *)
(* an all-transparent image; re-applying convert_to_white_preserve_shape to  *)
(* its own output turns every transparent pixel opaque white and every white *)
(* pixel transparent.                                                        *)
C8_ReapplyInverts ==
    /\ applied = <<"blue_to_white", "blue_to_white">> =>
          \A q \in LogoPos : Transparent(logo[q[1]][q[2]])
    /\ applied = <<"preserve_shape", "preserve_shape">> =>
          \A q \in LogoPos :
              /\ Transparent(before[q[1]][q[2]]) => OpaqueWhite(logo[q[1]][q[2]])
              /\ ~Transparent(before[q[1]][q[2]]) => Transparent(logo[q[1]][q[2]])

\* the second policy was re-applied to an output with both kinds of pixel
C8_Witness ==
    /\ applied = <<"preserve_shape", "preserve_shape">>
    /\ \E q \in LogoPos : Transparent(before[q[1]][q[2]])
    /\ \E q \in LogoPos : ~Transparent(before[q[1]][q[2]])

(* C9: under either policy a pixel classified background (brightness > 240   *)
(* under the brightness policy; all channels > 245, or opacity <= 10, under  *)
(* the non-white policy) gets alpha 0, every other pixel becomes exactly     *)
(* (255,255,255) with alpha in 1..255, and width and height are unchanged.   *)
C9_BackgroundTransparentForegroundWhite ==
    applied # <<>> =>
        /\ Height(logo) = Height(before)
        /\ \A y \in 1..Height(logo) : Len(logo[y]) = Len(before[y])
        /\ \A q \in LogoPos :
              LET p == before[q[1]][q[2]]
                  out == logo[q[1]][q[2]]
                  background ==
                      IF LastApplied = "blue_to_white"
                      THEN p[1] + p[2] + p[3] > 3 * 240
                      ELSE ~NotBackground(p) \/ 2 * Deficit(p) < 3 * 11
              IN  IF background THEN Transparent(out) ELSE WhiteWithAlpha(out)

\* both kinds of pixel were produced by one conversion of one image
C9_Witness ==
    /\ applied # <<>>
    /\ \E q \in LogoPos : Transparent(logo[q[1]][q[2]])
    /\ \E q \in LogoPos : WhiteWithAlpha(logo[q[1]][q[2]])

-----------------------------------------------------------------------------
(* The trimmer at the default target height of 2688 rows *)

\* solid content above solid white, the boundary at row 2000 and at row 2600
BoundaryImages(w, h) ==
    { Bands(h, Uniform(w, c), 0, Uniform(w, c), h - b, Uniform(w, White)) :
        c \in {Mid, Black, Light600, Grey240}, b \in {2000, 2600} }

InitFull ==
    \E w \in {1, 2} :
        \E im \in BoundaryImages(w, DefaultHeight) \cup GapImages(w, DefaultHeight)
                    \cup OtherSizes(w, DefaultHeight) :
            TrimStart(im, w, DefaultHeight)

SpecFull == InitFull /\ [][Next]_vars

\* rows [0, b) of im are solid colour c and rows [b, height) solid white
IsTwoBand(im, b, c) ==
    \A i \in 1..Height(im) :
        im[i] = [x \in 1..Width(im) |-> IF i <= b THEN c ELSE <<255, 255, 255>>]

\* the invocation worked on a two-band image with boundary b, detected the
\* boundary at b and wrote an image that keeps rows [0, b) and has rows
\* [b, target_height) solid in the median colour of rows [b - 20, b)
DetectedAndFilled(b) ==
    /\ content_bottom = b
    /\ result = "True"
    /\ \A i \in 1..b : file[i] = img[i]
    /\ SolidBelow(file, b, tw, th, FillColor)
    /\ IsMedianColor(img, ((b - 20 + 1)..b) \X (1..tw), FillColor)

(* C1 as claimed: on an image of target size with solid non-white content in *)
(* rows [0, 2000) and solid white in rows [2000, 2688), target_height 2688,  *)
(* the boundary is detected at 2000 and rows [2000, 2688) written back are   *)
(* solid in the per-channel median colour of rows [1980, 2000).              *)
C1_BoundaryAt2000 ==
    (pc = "done" /\ ~resized /\ th = 2688 /\ ~RowWhite(img[1])
       /\ IsTwoBand(img, 2000, img[1][1]))
        => DetectedAndFilled(2000)

(* C1 as amended: the same for a boundary b with 2590 <= b <= 2687 (at most  *)
(* 98 white rows) and content of mean brightness below 240: the boundary is  *)
(* detected at b and rows [b, 2688) written back are solid in the            *)
(* per-channel median colour of rows [b - 20, b).                            *)
C1_BoundaryWithin98Rows ==
    (pc = "done" /\ th = 2688 /\ RowClearlyContent(img[1])) =>
        \A b \in { k \in 2590..2687 :
                     img[k] # img[k + 1] /\ IsTwoBand(img, k, img[1][1]) } :
            DetectedAndFilled(b)

\* the widest white band the amended claim covers was filled
C1_Witness ==
    /\ pc = "done"
    /\ ~resized
    /\ th = 2688
    /\ RowClearlyContent(img[1])
    /\ IsTwoBand(img, 2590, img[1][1])
    /\ DetectedAndFilled(2590)

=============================================================================
